---- MODULE Spec2Model ----
(***************************************************************************)
(* SentimentLab: the HuggingFaceService singleton (request queue, rate     *)
(* limiting, endpoint failover, score normalisation, keyword extraction,   *)
(* demo simulator) and the useSentimentAnalysis hook (analysis state and   *)
(* its persisted copy in localStorage).                                    *)
(*                                                                         *)
(* JavaScript runs one task at a time.  An action of this model is one     *)
(* task together with the microtasks it triggers: a handler runs from its  *)
(* call, or from the event that resumes it (a fetch response, a timer), up *)
(* to the next await of something that is not yet settled.  React state    *)
(* updaters are applied in the order they are queued, so each setState is  *)
(* applied where it is called.                                             *)
(*                                                                         *)
(* Numbers are exact rationals [n, d]; strings that the code inspects      *)
(* (credentials, texts) are sequences of atoms.                            *)
(***************************************************************************)
EXTENDS Integers, Sequences, FiniteSets, TLC

VARIABLES
    apiKey,        \* HuggingFaceService.apiKey
    requestQueue,  \* HuggingFaceService.requestQueue: ids of the queued closures
    isProcessing,  \* HuggingFaceService.isProcessing
    reqs,          \* every closure ever pushed, by id: its text, position and outcome
    state,         \* useSentimentAnalysis: the AnalysisState
    storage,       \* window.localStorage
    calls,         \* invocations of analyzeSingleText / analyzeBatch
    fresh,         \* number of ids generated so far
    sinceDone,     \* observer: ms since the last closure settled (saturating)
    started,       \* observer: ids of the closures in the order they were started
    settled,       \* observer: ids of the closures in the order they settled
    hasApiKey      \* App: the hasApiKey state handed to the analysis views

vars == <<apiKey, requestQueue, isProcessing, reqs, state, storage, calls, fresh,
          sinceDone, started, settled, hasApiKey>>

-----------------------------------------------------------------------------
(* Bounds of the model *)

\* invocations of the hook's analyzeSingleText / analyzeBatch
MaxCalls == 2
\* texts handed to one analyzeBatch
MaxTexts == 2
\* how far one step of the clock advances, in ms
TickMs == 1000
\* closures the application pushes
MaxRequests == 3
\* calls of analyzeSentiment when the service is driven directly
MaxProbes == 2
\* calls of analyzeSentiment when the analysis of one response is examined
MaxAnalyses == 1
\* simulated analyses when the Demo Simulator is examined
MaxDemos == 2

-----------------------------------------------------------------------------
(* Rationals *)

RECURSIVE Gcd(_, _)
Gcd(a, b) == IF b = 0 THEN a ELSE Gcd(b, a % b)

Abs(x) == IF x < 0 THEN -x ELSE x

\* n/d in lowest terms; 0/0 is NaN
F(n, d) ==
    IF d = 0 THEN [n |-> 0, d |-> 0]
    ELSE LET g == Gcd(Abs(n), Abs(d))
             sg == IF d < 0 THEN -1 ELSE 1
         IN [n |-> sg * (n \div g), d |-> sg * (d \div g)]

IsNaN(a) == a.d = 0
FAdd(a, b) == IF IsNaN(a) \/ IsNaN(b) THEN F(0, 0) ELSE F(a.n * b.d + b.n * a.d, a.d * b.d)
FSub(a, b) == IF IsNaN(a) \/ IsNaN(b) THEN F(0, 0) ELSE F(a.n * b.d - b.n * a.d, a.d * b.d)
FMul(a, b) == IF IsNaN(a) \/ IsNaN(b) THEN F(0, 0) ELSE F(a.n * b.n, a.d * b.d)
\* JavaScript division; x/0 with x # 0 does not occur in the code modelled
FDiv(a, b) == IF IsNaN(a) \/ IsNaN(b) \/ b.n = 0 THEN F(0, 0) ELSE F(a.n * b.d, a.d * b.n)
\* comparisons with NaN are false
FGt(a, b) == ~IsNaN(a) /\ ~IsNaN(b) /\ a.n * b.d > b.n * a.d
FLe(a, b) == ~IsNaN(a) /\ ~IsNaN(b) /\ a.n * b.d <= b.n * a.d
FMin(a, b) == IF FGt(a, b) THEN b ELSE a
FMax(a, b) == IF FGt(b, a) THEN b ELSE a
FAbs(a) == F(Abs(a.n), a.d)
Zero == F(0, 1)
One == F(1, 1)

-----------------------------------------------------------------------------
(* Credentials: sequences of characters *)

\* apiKey === null (never set), or undefined (setApiKey(undefined))
NoKey == <<"null">>

KeyPrefix == <<"h", "f", "_">>

\* the key App.tsx installs (its first 11 characters)
AppKey == <<"h", "f", "_", "d", "N", "y", "Y", "w", "x", "O", "P">>

RECURSIVE trimStart(_)
trimStart(k) == IF k # <<>> /\ Head(k) = " " THEN trimStart(Tail(k)) ELSE k

RECURSIVE trimEnd(_)
trimEnd(k) ==
    IF k # <<>> /\ k[Len(k)] = " " THEN trimEnd(SubSeq(k, 1, Len(k) - 1)) ELSE k

\* String.prototype.trim
trim(k) == trimEnd(trimStart(k))

\* String.prototype.startsWith
startsWith(k, p) == Len(k) >= Len(p) /\ SubSeq(k, 1, Len(p)) = p

\* Settings.validateApiKey
validateApiKey(k) == startsWith(trim(k), KeyPrefix) /\ Len(trim(k)) > 10

\* what a user may type into the Settings field
TypedKeys ==
    { <<>>, <<" ">>, <<"x", "y", "z">>, KeyPrefix, <<" ">> \o AppKey \o <<" ">>, AppKey }

\* what any caller may hand to setApiKey: nothing, blanks, a key of another
\* service, a key between blanks
KeyInputs == { NoKey, <<" ">>, <<"x", "y", "z">>, <<" ">> \o AppKey \o <<" ">> }

-----------------------------------------------------------------------------
(* Texts: sequences of atoms; an atom is a maximal run of word characters  *)
(* or the separator " " (a run of non-word characters)                     *)

Sep == " "

\* a filter that keeps every text, blank or not
KeepsBlank(text) == TRUE

\* text.trim() is truthy
NonBlank(text) == trim(text) # <<>>

\* String.prototype.toLowerCase on the atoms used
toLowerCase(w) ==
    CASE w = "Great" -> "great"
      [] w = "This" -> "this"
      [] w = "AWFUL" -> "awful"
      [] w = "POSITIVE" -> "positive"
      [] w = "Negative" -> "negative"
      [] w = "Neutral" -> "neutral"
      [] w = "LABEL_0" -> "label_0"
      [] w = "LABEL_1" -> "label_1"
      [] w = "LABEL_2" -> "label_2"
      [] OTHER -> w

RECURSIVE MapLower(_)
MapLower(ws) ==
    IF ws = <<>> THEN <<>> ELSE <<toLowerCase(Head(ws))>> \o MapLower(Tail(ws))

IsWord(a) == a # Sep

\* text.toLowerCase().match(/\b\w+\b/g) || []
Words(text) == MapLower(SelectSeq(text, IsWord))

-----------------------------------------------------------------------------
(* Label mapping, keyword extraction, explanation                          *)

Sentiments == <<"positive", "negative", "neutral">>

\* a raw label is a sequence of atoms; includes(x) is "x is one of its atoms"
\* a mapping that tests the negative rules first
mapNegativeFirst(label) ==
    LET normalizedLabel == MapLower(label)
    IN IF \/ \E j \in 1..Len(normalizedLabel) : normalizedLabel[j] = "negative"
          \/ normalizedLabel = <<"label_0">>
          \/ normalizedLabel = <<"neg">>
          \/ \E j \in 1..Len(normalizedLabel) : normalizedLabel[j] = "1 star"
          \/ \E j \in 1..Len(normalizedLabel) : normalizedLabel[j] = "2 stars"
       THEN "negative"
       ELSE IF \/ \E j \in 1..Len(normalizedLabel) : normalizedLabel[j] = "positive"
               \/ normalizedLabel = <<"label_2">>
               \/ normalizedLabel = <<"pos">>
               \/ \E j \in 1..Len(normalizedLabel) : normalizedLabel[j] = "5 stars"
               \/ \E j \in 1..Len(normalizedLabel) : normalizedLabel[j] = "4 stars"
       THEN "positive"
       ELSE "neutral"

includes(label, x) == \E j \in 1..Len(label) : label[j] = x

mapSentimentLabel(label) ==
    LET normalizedLabel == MapLower(label)
    IN IF \/ includes(normalizedLabel, "positive")
          \/ normalizedLabel = <<"label_2">>
          \/ normalizedLabel = <<"pos">>
          \/ includes(normalizedLabel, "5 stars")
          \/ includes(normalizedLabel, "4 stars")
       THEN "positive"
       ELSE IF \/ includes(normalizedLabel, "negative")
               \/ normalizedLabel = <<"label_0">>
               \/ normalizedLabel = <<"neg">>
               \/ includes(normalizedLabel, "1 star")
               \/ includes(normalizedLabel, "2 stars")
       THEN "negative"
       ELSE "neutral"

positiveWords ==
    { "good", "great", "excellent", "amazing", "wonderful", "fantastic", "love", "best",
      "perfect", "awesome", "outstanding", "brilliant", "superb", "magnificent",
      "incredible", "marvelous", "exceptional", "delightful", "impressive", "remarkable",
      "beautiful", "lovely", "nice", "pleasant", "enjoyable", "satisfying" }

negativeWords ==
    { "bad", "terrible", "awful", "horrible", "hate", "worst", "disappointing", "poor",
      "useless", "disgusting", "dreadful", "appalling", "atrocious", "abysmal", "pathetic",
      "miserable", "unpleasant", "annoying", "frustrating", "irritating", "boring",
      "stupid", "ridiculous", "waste", "failure", "broken" }

RECURSIVE lexiconHits(_)
lexiconHits(words) ==
    IF words = <<>> THEN <<>>
    ELSE LET w == Head(words)
             hit == IF w \in positiveWords
                    THEN <<[word |-> w, sentiment |-> "positive", weight |-> F(8, 10)]>>
                    ELSE IF w \in negativeWords
                    THEN <<[word |-> w, sentiment |-> "negative", weight |-> F(8, 10)]>>
                    ELSE <<>>
         IN hit \o lexiconHits(Tail(words))

\* self.findIndex(k => k.word === word)
findIndex(keywords, word) ==
    CHOOSE j \in 1..Len(keywords) :
        /\ keywords[j].word = word
        /\ \A h \in 1..(j - 1) : keywords[h].word # word

RECURSIVE uniqueFrom(_, _)
uniqueFrom(keywords, index) ==
    IF index > Len(keywords) THEN <<>>
    ELSE (IF index = findIndex(keywords, keywords[index].word)
          THEN <<keywords[index]>> ELSE <<>>) \o uniqueFrom(keywords, index + 1)

\* a slice that cuts nothing
sliceAll(seq, n) == seq

slice(seq, n) == SubSeq(seq, 1, IF Len(seq) < n THEN Len(seq) ELSE n)

extractKeywords(text, sentiment) ==
    LET keywords == lexiconHits(Words(text))
        uniqueKeywords == uniqueFrom(keywords, 1)
    IN slice(uniqueKeywords, 5)

RECURSIVE wordsOf(_)
wordsOf(keywords) ==
    IF keywords = <<>> THEN <<>> ELSE <<Head(keywords).word>> \o wordsOf(Tail(keywords))

\* the text of the explanation, by its parts
generateExplanation(sentiment, confidence, keywords) ==
    [ sentiment |-> sentiment,
      confidenceLevel |-> IF FGt(confidence, F(8, 10)) THEN "high"
                          ELSE IF FGt(confidence, F(6, 10)) THEN "moderate" ELSE "low",
      percent |-> FMul(confidence, F(100, 1)),
      indicators |-> wordsOf(keywords) ]

-----------------------------------------------------------------------------
(* The closure of analyzeSentiment after makeApiCall returned `results`    *)

ZeroScores == [positive |-> Zero, negative |-> Zero, neutral |-> Zero]

RECURSIVE foldScores(_, _, _)
foldScores(results, scores, totalScore) ==
    IF results = <<>> THEN [scores |-> scores, totalScore |-> totalScore]
    ELSE LET mappedSentiment == mapSentimentLabel(Head(results).label)
             v == FMax(Zero, FMin(One, Head(results).score))
         IN foldScores(Tail(results), [scores EXCEPT ![mappedSentiment] = v],
                       FAdd(totalScore, v))

normalizeScores(scores, totalScore) ==
    IF FGt(totalScore, Zero) /\ FGt(FAbs(FSub(totalScore, One)), F(1, 100))
    THEN [key \in DOMAIN scores |-> FDiv(scores[key], totalScore)]
    ELSE scores

\* a reduce that keeps the earlier entry unless the later one is greater
RECURSIVE reduceMaxFirst(_, _, _)
reduceMaxFirst(scores, a, rest) ==
    IF rest = <<>> THEN a
    ELSE reduceMaxFirst(scores,
                        IF FGt(scores[Head(rest)], scores[a]) THEN Head(rest) ELSE a,
                        Tail(rest))

\* Object.entries(scores).reduce((a, b) => scores[a] > scores[b] ? a : b)
RECURSIVE reduceMax(_, _, _)
reduceMax(scores, a, rest) ==
    IF rest = <<>> THEN a
    ELSE reduceMax(scores, IF FGt(scores[a], scores[Head(rest)]) THEN a ELSE Head(rest),
                   Tail(rest))

highestScoring(scores) == reduceMax(scores, Head(Sentiments), Tail(Sentiments))

analyzeResults(text, results) ==
    LET folded == foldScores(results, ZeroScores, Zero)
        scores == normalizeScores(folded.scores, folded.totalScore)
        sentiment == highestScoring(scores)
        confidence == scores[sentiment]
        keywords == extractKeywords(text, sentiment)
    IN [ sentiment |-> sentiment,
         confidence |-> confidence,
         scores |-> scores,
         keywords |-> keywords,
         explanation |-> generateExplanation(sentiment, confidence, keywords) ]

-----------------------------------------------------------------------------
(* The demo simulator; rnd holds the values Math.random() returns          *)

demoPositiveWords ==
    { "good", "great", "excellent", "amazing", "wonderful", "fantastic", "love", "best",
      "perfect", "awesome", "outstanding", "brilliant", "superb", "magnificent",
      "incredible", "marvelous", "exceptional", "delightful" }

demoNegativeWords ==
    { "bad", "terrible", "awful", "horrible", "hate", "worst", "disappointing", "poor",
      "useless", "disgusting", "dreadful", "appalling", "atrocious", "abysmal", "pathetic",
      "miserable", "unpleasant", "annoying" }

RECURSIVE countIn(_, _)
countIn(words, lexicon) ==
    IF words = <<>> THEN 0
    ELSE (IF Head(words) \in lexicon THEN 1 ELSE 0) + countIn(Tail(words), lexicon)

demoVerdict(text, rnd) ==
    LET positiveScore == countIn(Words(text), demoPositiveWords)
        negativeScore == countIn(Words(text), demoNegativeWords)
    IN IF positiveScore > negativeScore
       THEN [ sentiment |-> "positive",
              confidence |-> FMin(FAdd(F(65, 100), FMul(F(positiveScore, 1), F(8, 100))),
                                  F(92, 100)) ]
       ELSE IF negativeScore > positiveScore
       THEN [ sentiment |-> "negative",
              confidence |-> FMin(FAdd(F(65, 100), FMul(F(negativeScore, 1), F(8, 100))),
                                  F(92, 100)) ]
       ELSE [ sentiment |-> "neutral",
              confidence |-> FAdd(F(55, 100), FMul(rnd.confidence, F(25, 100))) ]

analyzeSentimentDemo(text, rnd) ==
    LET verdict == demoVerdict(text, rnd)
        sentiment == verdict.sentiment
        confidence == verdict.confidence
        remaining == FSub(One, confidence)
        raw == [ key \in DOMAIN ZeroScores |->
                   IF sentiment = key THEN confidence
                   ELSE FMul(FMul(rnd[key], remaining), F(6, 10)) ]
        total == FAdd(FAdd(raw.positive, raw.negative), raw.neutral)
        scores == [key \in DOMAIN ZeroScores |-> FDiv(raw[key], total)]
        keywords == extractKeywords(text, sentiment)
    IN [ sentiment |-> sentiment,
         confidence |-> confidence,
         scores |-> scores,
         keywords |-> keywords,
         explanation |-> generateExplanation(sentiment, confidence, keywords) ]

\* the values drawn for Math.random()
Randoms == { F(0, 1), F(1, 2) }

RandomDraws ==
    [confidence : Randoms, positive : Randoms, negative : Randoms, neutral : Randoms]

\* the draws the hook is driven with
HookDraws == {[key \in DOMAIN ZeroScores \cup {"confidence"} |-> F(1, 2)]}

\* the draws the batches are driven with when their progress is examined
ProgressDraws == {[key \in DOMAIN ZeroScores \cup {"confidence"} |-> r] : r \in Randoms}

-----------------------------------------------------------------------------
(* The program state as one record, so that the steps of a handler compose *)

Cur ==
    [ apiKey |-> apiKey, requestQueue |-> requestQueue, isProcessing |-> isProcessing,
      reqs |-> reqs, state |-> state, storage |-> storage, calls |-> calls,
      fresh |-> fresh, sinceDone |-> sinceDone, started |-> started, settled |-> settled ]

BecomeState(s) ==
    /\ apiKey' = s.apiKey
    /\ requestQueue' = s.requestQueue
    /\ isProcessing' = s.isProcessing
    /\ reqs' = s.reqs
    /\ state' = s.state
    /\ storage' = s.storage
    /\ calls' = s.calls
    /\ fresh' = s.fresh
    /\ sinceDone' = s.sinceDone
    /\ started' = s.started
    /\ settled' = s.settled
    /\ hasApiKey' = hasApiKey

\* the step to state `next`, which is computed once
Become(next) == \E s \in {next} : BecomeState(s)

-----------------------------------------------------------------------------
(* HTTP responses and the errors thrown                                    *)

\* private rateLimitDelay = 2000
rateLimitDelay == 2000

\* an Error, by the parts of its message
Message(id) == [id |-> id, status |-> 0, error |-> "", estimated_time |-> 0]

\* `API request failed (${status}): ${statusText}`
DefaultMessage(status) == [Message("API request failed") EXCEPT !.status = status]

\* errorData.error, followed by the estimated time when there is one
ServerMessage(body) ==
    [Message("server") EXCEPT !.error = body.error, !.estimated_time = body.estimated_time]

NoError == Message("null")

\* a response body: not JSON; or JSON of shape "nested" ([[{label, score}, ...]]),
\* "flat" ([{label, score}, ...]), "empty" ([]) or "object" ({error?, estimated_time?})
Body(json, shape, data, error, estimated_time) ==
    [ json |-> json, shape |-> shape, data |-> data, error |-> error,
      estimated_time |-> estimated_time ]

Response(status, body) == [status |-> status, body |-> body]

\* observer: a fetch that threw instead of returning a response
NoResponse == Response(0, Body(FALSE, "none", <<>>, "", 0))

\* response.ok
ok(status) == status >= 200 /\ status <= 299

Pending == [tag |-> "pending"]
Resolved(value) == [tag |-> "ok", value |-> value]
Rejected(error) == [tag |-> "err", error |-> error]

\* the sentinel of `gap` for a closure started before any other settled
NoGap == 0 - 1

\* a closure pushed by analyzeSentiment(text)
NewRequest(text, caller) ==
    [ text |-> text,
      caller |-> caller,         \* "hook" or "testConnection"
      phase |-> "queued",        \* queued, primary, fallback (a fetch is in flight),
                                 \* delay (processQueue waits after it), done
      out |-> Pending,           \* how the promise of analyzeSentiment settled
      timer |-> 0,               \* ms left of processQueue's setTimeout
      fetched |-> <<>>,          \* observer: the endpoints fetched for it, in order
      keyAtStart |-> NoKey,      \* observer: apiKey when its makeApiCall was entered
      gap |-> NoGap,             \* observer: sinceDone when it was started
      late |-> FALSE,            \* observer: pushed during the delay after the last
                                 \* queued closure
      resps |-> <<>> ]           \* observer: what its fetches returned, in order

\* the message thrown for a response that is neither ok nor 404
\* a mapping that knows no 403
statusErrorWithout403(r) ==
    LET errorMessage ==
            IF r.body.json /\ r.body.shape = "object" /\ r.body.error # ""
            THEN ServerMessage(r.body)
            ELSE DefaultMessage(r.status)
    IN IF r.status = 401 THEN Message("Invalid API key")
       ELSE IF r.status = 429 THEN Message("Rate limit exceeded")
       ELSE IF r.status = 503 THEN Message("Model is currently loading")
       ELSE errorMessage

statusError(r) ==
    LET errorMessage ==
            IF r.body.json /\ r.body.shape = "object" /\ r.body.error # ""
            THEN ServerMessage(r.body)
            ELSE DefaultMessage(r.status)
    IN IF r.status = 401 THEN Message("Invalid API key")
       ELSE IF r.status = 403 THEN Message("Access forbidden")
       ELSE IF r.status = 429 THEN Message("Rate limit exceeded")
       ELSE IF r.status = 503 THEN Message("Model is currently loading")
       ELSE errorMessage

\* the array of {label, score} in an ok response, or the message thrown
parseResults(body) ==
    IF ~body.json THEN Rejected(Message("Invalid response format"))
    ELSE IF body.shape = "nested" THEN Resolved(body.data)
    ELSE IF body.shape = "flat" /\ Len(body.data) > 0 /\ Head(body.data).label # <<>>
    THEN Resolved(body.data)
    ELSE Rejected(Message("Unexpected API response format"))

\* the credential checks at the head of makeApiCall: the message thrown, or NoError
\* a check of the credential that does not look at its prefix
credentialErrorWithoutPrefix(key) ==
    IF key = NoKey \/ Len(key) = 0 THEN Message("API key not set") ELSE NoError

credentialError(key) ==
    IF key = NoKey \/ Len(key) = 0 THEN Message("API key not set")
    ELSE IF ~startsWith(key, KeyPrefix) THEN Message("Invalid API key format")
    ELSE NoError

\* a processQueue that does not look at isProcessing
processQueueReturnsIfEmpty(s) == Len(s.requestQueue) = 0

\* a loop that leaves the last closure in the queue
loopGoesOnAboveOne(s) == Len(s.requestQueue) > 1

\* a queue served from its tail
pop(queue) == [request |-> queue[Len(queue)], rest |-> SubSeq(queue, 1, Len(queue) - 1)]

\* a failover that is tried again after the fallback's 404
retriesAlways(phase) == TRUE

\* a delay that is awaited only after a closure that resolved
delayAfterSuccess(out) == IF out.tag = "ok" THEN rateLimitDelay ELSE 0

\* the first line of processQueue
processQueueReturns(s) == s.isProcessing \/ Len(s.requestQueue) = 0

\* the condition of processQueue's while loop
loopGoesOn(s) == Len(s.requestQueue) > 0

\* this.requestQueue.shift()
shift(queue) == [request |-> Head(queue), rest |-> Tail(queue)]

\* the test !useFailover of a 404: the closure is fetching the primary endpoint
retries(phase) == phase = "primary"

\* the delay processQueue awaits after a closure, whether it resolved or rejected
delayAfter(out) == rateLimitDelay

-----------------------------------------------------------------------------
(* localStorage and JSON                                                   *)

Absent == <<>>
Item(v) == <<v>>

\* JSON.stringify: a Date becomes its ISO string, NaN becomes null
jsonNumber(x) == IF IsNaN(x) THEN [null |-> TRUE] ELSE x
jsonDate(t) == [iso |-> t.date]

resultToJSON(r) == [r EXCEPT !.timestamp = jsonDate(@)]

RECURSIVE resultsToJSON(_)
resultsToJSON(rs) ==
    IF rs = <<>> THEN <<>> ELSE <<resultToJSON(Head(rs))>> \o resultsToJSON(Tail(rs))

batchToJSON(b) ==
    [b EXCEPT !.createdAt = jsonDate(@),
              !.results = resultsToJSON(@),
              !.summary.averageConfidence = jsonNumber(@)]

RECURSIVE batchesToJSON(_)
batchesToJSON(bs) ==
    IF bs = <<>> THEN <<>> ELSE <<batchToJSON(Head(bs))>> \o batchesToJSON(Tail(bs))

saveToLocalStorage(s, results, batches) ==
    [s EXCEPT !.storage.sentimentResults = Item(resultsToJSON(results)),
              !.storage.sentimentBatches = Item(batchesToJSON(batches))]

\* new Date(r.timestamp) of an ISO string
dateFromJSON(t) == [date |-> t.iso]

\* {...r, timestamp: new Date(r.timestamp)}
resultFromJSON(r) == [r EXCEPT !.timestamp = dateFromJSON(@)]

RECURSIVE resultsFromJSON(_)
resultsFromJSON(rs) ==
    IF rs = <<>> THEN <<>> ELSE <<resultFromJSON(Head(rs))>> \o resultsFromJSON(Tail(rs))

\* {...b, createdAt: new Date(b.createdAt), results: b.results.map(...)}
batchFromJSON(b) ==
    [b EXCEPT !.createdAt = dateFromJSON(@), !.results = resultsFromJSON(@)]

RECURSIVE batchesFromJSON(_)
batchesFromJSON(bs) ==
    IF bs = <<>> THEN <<>> ELSE <<batchFromJSON(Head(bs))>> \o batchesFromJSON(Tail(bs))

\* JSON.parse(localStorage.getItem(key) || '[]')
parseItem(item) == IF item = Absent THEN <<>> ELSE item[1]

\* the collections the hook starts with when it is mounted over storage `st`
hydrate(st) ==
    [ results |-> resultsFromJSON(parseItem(st.sentimentResults)),
      batches |-> batchesFromJSON(parseItem(st.sentimentBatches)) ]

-----------------------------------------------------------------------------
(* The hook's handlers and the service's methods, as functions of the state *)

RECURSIVE settle(_, _, _), resume(_, _, _), analysisDone(_, _, _), runBatch(_, _, _),
          analyzeSentiment(_, _, _), processQueue(_), loopStep(_), startRequest(_, _),
          makeApiCall(_, _, _)

\* setApiKey(apiKey): this.apiKey = apiKey?.trim()
setApiKey(s, k) == [s EXCEPT !.apiKey = IF k = NoKey THEN NoKey ELSE trim(k)]

\* a clearing that forgets the Batches
clearResultsOnly(s) ==
    [s EXCEPT !.state.results = <<>>,
              !.storage.sentimentResults = Absent]

\* a clearing that leaves the persisted Batches in place
clearResultsInMemory(s) ==
    [s EXCEPT !.state.results = <<>>,
              !.state.batches = <<>>,
              !.storage.sentimentResults = Absent]

\* clearResults()
clearResults(s) ==
    [s EXCEPT !.state.results = <<>>,
              !.state.batches = <<>>,
              !.storage.sentimentResults = Absent,
              !.storage.sentimentBatches = Absent]

\* prev.results.filter(r => r.id !== id), and likewise for batches
withoutId(seq, id) == SelectSeq(seq, LAMBDA x : x.id # id)

\* a deletion that also takes the Result out of the Batches
deleteResultEverywhere(s, id) ==
    LET newResults == withoutId(s.state.results, id)
        newBatches == [j \in 1..Len(s.state.batches) |->
                          [s.state.batches[j] EXCEPT !.results = withoutId(@, id)]]
    IN [saveToLocalStorage(s, newResults, newBatches)
            EXCEPT !.state.results = newResults, !.state.batches = newBatches]

\* deleteResult(id)
deleteResult(s, id) ==
    LET newResults == withoutId(s.state.results, id)
    IN [saveToLocalStorage(s, newResults, s.state.batches)
            EXCEPT !.state.results = newResults]

\* prev.batches.find(b => b.id === id); <<>> stands for undefined
find(batches, id) ==
    IF \E j \in 1..Len(batches) : batches[j].id = id
    THEN <<batches[CHOOSE j \in 1..Len(batches) :
                       /\ batches[j].id = id
                       /\ \A h \in 1..(j - 1) : batches[h].id # id]>>
    ELSE <<>>

\* a membership test by text instead of id
someWithText(members, r) == \E j \in 1..Len(members) : members[j].text = r.text

\* batch.results.some(br => br.id === r.id)
some(members, r) == \E j \in 1..Len(members) : members[j].id = r.id

\* deleteBatch(id)
deleteBatch(s, id) ==
    LET batch == find(s.state.batches, id)
        newBatches == withoutId(s.state.batches, id)
        newResults == IF batch # <<>>
                      THEN SelectSeq(s.state.results, LAMBDA r : ~some(batch[1].results, r))
                      ELSE s.state.results
    IN [saveToLocalStorage(s, newResults, newBatches)
            EXCEPT !.state.results = newResults, !.state.batches = newBatches]

\* a SentimentResult for `analysis`, with a new id and the current time
newResult(s, text, analysis) ==
    [ id |-> <<"result", s.fresh + 1>>,
      text |-> text,
      sentiment |-> analysis.sentiment,
      confidence |-> analysis.confidence,
      scores |-> analysis.scores,
      keywords |-> analysis.keywords,
      timestamp |-> [date |-> s.fresh + 1],
      explanation |-> analysis.explanation ]

countOf(results, sentiment) ==
    Cardinality({j \in 1..Len(results) : results[j].sentiment = sentiment})

RECURSIVE sumConfidence(_)
sumConfidence(results) ==
    IF results = <<>> THEN Zero
    ELSE FAdd(Head(results).confidence, sumConfidence(Tail(results)))

\* the BatchResult built at the end of analyzeBatch
newBatch(s, name, results) ==
    [ id |-> <<"batch", s.fresh + 1>>,
      name |-> name,
      results |-> results,
      summary |->
        [ totalTexts |-> Len(results),
          positiveCount |-> countOf(results, "positive"),
          negativeCount |-> countOf(results, "negative"),
          neutralCount |-> countOf(results, "neutral"),
          averageConfidence |-> FDiv(sumConfidence(results), F(Len(results), 1)) ],
      createdAt |-> [date |-> s.fresh + 1] ]

\* a catch block that keeps the Results the batch had produced
analysisFailedKeepingResults(s, c, error) ==
    LET kept == s.calls[c].results \o s.state.results
    IN [saveToLocalStorage(s, kept, s.state.batches)
            EXCEPT !.state.isLoading = FALSE,
                   !.state.error = error,
                   !.state.results = kept,
                   !.calls[c].status = "threw",
                   !.calls[c].ret = error]

\* a catch block that leaves isLoading set
analysisFailedStillLoading(s, c, error) ==
    [s EXCEPT !.state.error = error,
              !.calls[c].status = "threw",
              !.calls[c].ret = error]

\* the catch block of analyzeSingleText and of analyzeBatch
analysisFailed(s, c, error) ==
    [s EXCEPT !.state.isLoading = FALSE,
              !.state.error = error,
              !.calls[c].status = "threw",
              !.calls[c].ret = error]

\* an analyzeSingleText that puts its Result after those of the collection
singleDoneAtEnd(s, c, analysis) ==
    LET result == newResult(s, s.calls[c].texts[1], analysis)
        newResults == s.state.results \o <<result>>
        saved == saveToLocalStorage(s, newResults, s.state.batches)
    IN [saved EXCEPT !.state.results = newResults,
                     !.state.isLoading = FALSE,
                     !.state.progress = F(100, 1),
                     !.fresh = @ + 1,
                     !.calls[c].status = "returned",
                     !.calls[c].ret = result]

\* analyzeSingleText after its await
singleDone(s, c, analysis) ==
    LET result == newResult(s, s.calls[c].texts[1], analysis)
        newResults == <<result>> \o s.state.results
        saved == saveToLocalStorage(s, newResults, s.state.batches)
    IN [saved EXCEPT !.state.results = newResults,
                     !.state.isLoading = FALSE,
                     !.state.progress = F(100, 1),
                     !.fresh = @ + 1,
                     !.calls[c].status = "returned",
                     !.calls[c].ret = result]

\* an analyzeBatch that installs its Results in place of the collection
batchDoneReplacing(s, c) ==
    LET results == s.calls[c].results
        batch == newBatch(s, s.calls[c].name, results)
        newResults == results
        newBatches == <<batch>> \o s.state.batches
        saved == saveToLocalStorage(s, newResults, newBatches)
    IN [saved EXCEPT !.state.results = newResults,
                     !.state.batches = newBatches,
                     !.state.isLoading = FALSE,
                     !.fresh = @ + 1,
                     !.calls[c].status = "returned",
                     !.calls[c].ret = batch]

\* an analyzeBatch that puts its Results after those of the collection
batchDoneAtEnd(s, c) ==
    LET results == s.calls[c].results
        batch == newBatch(s, s.calls[c].name, results)
        newResults == s.state.results \o results
        newBatches == <<batch>> \o s.state.batches
        saved == saveToLocalStorage(s, newResults, newBatches)
    IN [saved EXCEPT !.state.results = newResults,
                     !.state.batches = newBatches,
                     !.state.isLoading = FALSE,
                     !.fresh = @ + 1,
                     !.calls[c].status = "returned",
                     !.calls[c].ret = batch]

\* analyzeBatch after its loop
batchDone(s, c) ==
    LET results == s.calls[c].results
        batch == newBatch(s, s.calls[c].name, results)
        newResults == results \o s.state.results
        newBatches == <<batch>> \o s.state.batches
        saved == saveToLocalStorage(s, newResults, newBatches)
    IN [saved EXCEPT !.state.results = newResults,
                     !.state.batches = newBatches,
                     !.state.isLoading = FALSE,
                     !.fresh = @ + 1,
                     !.calls[c].status = "returned",
                     !.calls[c].ret = batch]

\* a progress that counts the non-blank texts only
setProgressOfNonBlank(s, c, k) ==
    [s EXCEPT !.state.progress =
        FMul(F(Len(SelectSeq(SubSeq(s.calls[c].texts, 1, k), NonBlank)),
               Len(SelectSeq(s.calls[c].texts, NonBlank))), F(100, 1))]

\* setState(prev => ({...prev, progress: ((i + 1) / total) * 100})), k = i + 1
setProgress(s, c, k) ==
    [s EXCEPT !.state.progress = FMul(F(k, Len(s.calls[c].texts)), F(100, 1))]

\* the loop of analyzeBatch from its k-th text on, up to its next await
runBatch(s, c, k) ==
    LET call == s.calls[c]
    IN IF k > Len(call.texts) THEN batchDone(s, c)
       ELSE IF NonBlank(call.texts[k])
       THEN IF call.useDemo
            THEN [s EXCEPT !.calls[c].i = k, !.calls[c].awaiting = 0]
            ELSE analyzeSentiment([s EXCEPT !.calls[c].i = k,
                                            !.calls[c].awaiting = Len(s.reqs) + 1],
                                  call.texts[k], "hook")
       ELSE runBatch(setProgress(s, c, k), c, k + 1)

\* the handler of call c resumes with `analysis`
analysisDone(s, c, analysis) ==
    LET call == s.calls[c]
    IN IF call.kind = "single" THEN singleDone(s, c, analysis)
       ELSE LET result == newResult(s, call.texts[call.i], analysis)
                pushed == [s EXCEPT !.calls[c].results = Append(@, result),
                                    !.fresh = @ + 1]
            IN runBatch(setProgress(pushed, c, call.i), c, call.i + 1)

\* the caller awaiting closure i resumes (a caller outside the hook has no state here)
resume(s, i, out) ==
    LET waiting == {c \in 1..Len(s.calls) :
                        s.calls[c].status = "running" /\ s.calls[c].awaiting = i}
    IN IF waiting = {} THEN s
       ELSE LET c == CHOOSE c \in waiting : TRUE
            IN IF out.tag = "ok" THEN analysisDone(s, c, out.value)
               ELSE analysisFailed(s, c, out.error)

\* a processQueue without its try/catch: a rejection ends the loop
settleOrAbort(s, i, out) ==
    LET s1 == [s EXCEPT !.reqs[i].out = out,
                        !.settled = Append(@, i),
                        !.sinceDone = 0]
        s2 == resume(s1, i, out)
    IN IF out.tag = "err" THEN [s2 EXCEPT !.reqs[i].phase = "done"]
       ELSE [s2 EXCEPT !.reqs[i].phase = "delay", !.reqs[i].timer = rateLimitDelay]

\* closure i calls resolve or reject and returns; processQueue starts its delay
settle(s, i, out) ==
    LET s1 == [s EXCEPT !.reqs[i].out = out,
                        !.settled = Append(@, i),
                        !.sinceDone = 0]
        s2 == resume(s1, i, out)
    IN [s2 EXCEPT !.reqs[i].phase = "delay", !.reqs[i].timer = delayAfter(out)]

makeApiCall(s, i, useFailover) ==
    LET error == credentialError(s.apiKey)
    IN IF error # NoError THEN settle(s, i, Rejected(error))
       ELSE [s EXCEPT !.reqs[i].phase = IF useFailover THEN "fallback" ELSE "primary",
                      !.reqs[i].fetched =
                          Append(@, IF useFailover THEN "fallback" ELSE "primary")]

\* processQueue calls request(): closure i runs up to its fetch
startRequest(s, i) ==
    makeApiCall([s EXCEPT !.started = Append(@, i),
                          !.reqs[i].keyAtStart = s.apiKey,
                          !.reqs[i].gap = IF s.settled = <<>> THEN NoGap ELSE s.sinceDone],
                i, FALSE)

\* the head of processQueue's while loop
loopStep(s) ==
    IF loopGoesOn(s)
    THEN startRequest([s EXCEPT !.requestQueue = shift(@).rest], shift(s.requestQueue).request)
    ELSE [s EXCEPT !.isProcessing = FALSE]

processQueue(s) ==
    IF processQueueReturns(s) THEN s ELSE loopStep([s EXCEPT !.isProcessing = TRUE])

\* observer: processQueue awaits its delay and the queue is empty
inLastDelay(s) ==
    /\ s.isProcessing /\ Len(s.requestQueue) = 0
    /\ \E i \in 1..Len(s.reqs) : s.reqs[i].phase = "delay"

analyzeSentiment(s, text, caller) ==
    LET i == Len(s.reqs) + 1
        request == [NewRequest(text, caller) EXCEPT !.late = inLastDelay(s)]
    IN processQueue([s EXCEPT !.reqs = Append(@, request),
                              !.requestQueue = Append(@, i)])

\* makeApiCall of closure i after its fetch returned response r
fetchReturned(s, i, r) ==
    LET s1 == [s EXCEPT !.reqs[i].resps = Append(@, r)]
        parsed == parseResults(r.body)
    IN IF ~ok(r.status)
       THEN IF r.status = 404
            THEN IF retries(s.reqs[i].phase) THEN makeApiCall(s1, i, TRUE)
                 ELSE settle(s1, i, Rejected(Message("Model not found")))
            ELSE settle(s1, i, Rejected(statusError(r)))
       ELSE IF parsed.tag = "err" THEN settle(s1, i, parsed)
       ELSE settle(s1, i, Resolved(analyzeResults(s.reqs[i].text, parsed.value)))

\* makeApiCall of closure i after its fetch threw a TypeError
fetchThrew(s, i, mentionsFetch) ==
    settle([s EXCEPT !.reqs[i].resps = Append(@, NoResponse)], i,
           Rejected(IF mentionsFetch THEN Message("Network error")
                    ELSE Message("TypeError")))

\* a new invocation of a handler of the hook
NewCall(kind, texts, name, useDemo) ==
    [ kind |-> kind, texts |-> texts, name |-> name, useDemo |-> useDemo,
      i |-> 0,                  \* the text it is awaiting the analysis of
      results |-> <<>>,         \* analyzeBatch's local array
      awaiting |-> 0,           \* the closure it awaits; 0: the demo's timer
      status |-> "running",     \* running, returned, threw
      ret |-> NoError ]         \* what it returned or threw

\* setState(prev => ({...prev, isLoading: true, error: null, progress: 0}))
setLoading(s) ==
    [s EXCEPT !.state.isLoading = TRUE, !.state.error = NoError, !.state.progress = Zero]

analyzeSingleTextCall(s, text, useDemo) ==
    LET c == Len(s.calls) + 1
        s1 == [setLoading(s) EXCEPT !.calls = Append(@, NewCall("single", <<text>>, "", useDemo))]
    IN IF useDemo THEN [s1 EXCEPT !.calls[c].i = 1]
       ELSE analyzeSentiment([s1 EXCEPT !.calls[c].i = 1,
                                        !.calls[c].awaiting = Len(s.reqs) + 1],
                             text, "hook")

analyzeBatchCall(s, texts, batchName, useDemo) ==
    LET c == Len(s.calls) + 1
        s1 == [setLoading(s) EXCEPT !.calls = Append(@, NewCall("batch", texts, batchName, useDemo))]
    IN runBatch(s1, c, 1)

-----------------------------------------------------------------------------
(* Inputs                                                                  *)

GoodMovie == <<"good", Sep, "movie">>
TerribleFilm == <<"terrible", Sep, "film">>
BlankText == <<Sep>>

\* 'This is a test message.'
TestMessage == <<"This", Sep, "is", Sep, "a", Sep, "test", Sep, "message", Sep>>

\* the first n texts of: good movie, terrible film, blank, good movie, ...
FromGood(n) ==
    [j \in 1..n |-> IF j % 3 = 1 THEN GoodMovie
                    ELSE IF j % 3 = 2 THEN TerribleFilm ELSE BlankText]

\* the first n texts of: blank, good movie, blank, good movie, ...
FromBlank(n) == [j \in 1..n |-> IF j % 2 = 1 THEN BlankText ELSE GoodMovie]

\* texts for the keyword extraction
Praise ==
    <<"This", Sep, "is", Sep, "an", Sep, "amazing", Sep, "and", Sep, "wonderful", Sep,
      "product">>
Repeats == <<"good", Sep, "bad", Sep, "good", Sep, "Great", Sep, "bad">>
ManyWords ==
    <<"good", Sep, "bad", Sep, "great", Sep, "awful", Sep, "love", Sep, "hate", Sep,
      "nice", Sep, "good">>
Shouting == <<"Great", Sep, "AWFUL">>
Plain == <<"movie", Sep, "film">>

AnalysisTexts == {Praise, Repeats, ManyWords, Shouting, Plain}

\* texts for the Demo Simulator
NiceMovie == <<"nice", Sep, "movie">>
BoringFilm == <<"boring", Sep, "film">>

DemoTexts ==
    {GoodMovie, TerribleFilm, NiceMovie, BoringFilm, Plain, Repeats, ManyWords, Shouting}

\* the lists handed to analyzeBatch when the collections are examined
StoreInputs == {FromGood(0), FromGood(MaxTexts)}

BatchInputs == {FromGood(n) : n \in 0..MaxTexts} \cup {FromBlank(MaxTexts)}

\* cardiffnlp/twitter-roberta-base-sentiment-latest, nested shape
RobertaPositive ==
    Body(TRUE, "nested",
         << [label |-> <<"positive">>, score |-> F(90, 100)],
            [label |-> <<"neutral">>, score |-> F(6, 100)],
            [label |-> <<"negative">>, score |-> F(4, 100)] >>, "", 0)

\* nlptown/bert-base-multilingual-uncased-sentiment, flat shape
StarsNegative ==
    Body(TRUE, "flat",
         << [label |-> <<"1 star">>, score |-> F(70, 100)],
            [label |-> <<"3 stars">>, score |-> F(20, 100)],
            [label |-> <<"5 stars">>, score |-> F(10, 100)] >>, "", 0)

\* the five labels of the fallback model
FiveStars ==
    Body(TRUE, "flat",
         << [label |-> <<"1 star">>, score |-> F(10, 100)],
            [label |-> <<"2 stars">>, score |-> F(10, 100)],
            [label |-> <<"3 stars">>, score |-> F(20, 100)],
            [label |-> <<"4 stars">>, score |-> F(30, 100)],
            [label |-> <<"5 stars">>, score |-> F(30, 100)] >>, "", 0)

\* [[]]
NestedEmpty == Body(TRUE, "nested", <<>>, "", 0)

TiedTwo ==
    Body(TRUE, "flat",
         << [label |-> <<"POSITIVE">>, score |-> F(1, 2)],
            [label |-> <<"Negative">>, score |-> F(1, 2)] >>, "", 0)

TiedThree ==
    Body(TRUE, "nested",
         << [label |-> <<"LABEL_0">>, score |-> F(1, 4)],
            [label |-> <<"LABEL_1">>, score |-> F(1, 4)],
            [label |-> <<"LABEL_2">>, score |-> F(1, 4)] >>, "", 0)

\* scores that do not sum to 1, one of them above 1
Unscaled ==
    Body(TRUE, "nested",
         << [label |-> <<"neg">>, score |-> F(3, 2)],
            [label |-> <<"pos">>, score |-> F(1, 2)],
            [label |-> <<"other">>, score |-> F(1, 2)] >>, "", 0)

AllZero ==
    Body(TRUE, "flat",
         << [label |-> <<"positive">>, score |-> Zero],
            [label |-> <<"negative">>, score |-> Zero] >>, "", 0)

\* the successful responses whose analysis is examined
AnalysisResponses ==
    { Response(200, RobertaPositive), Response(200, StarsNegative),
      Response(200, FiveStars), Response(200, NestedEmpty), Response(200, TiedTwo),
      Response(200, TiedThree), Response(200, Unscaled), Response(200, AllZero) }

NotJson == Body(FALSE, "none", <<>>, "", 0)
EmptyArray == Body(TRUE, "empty", <<>>, "", 0)
ErrorBody == Body(TRUE, "object", <<>>, "overloaded", 0)
LoadingBody == Body(TRUE, "object", <<>>, "loading", 20)
EmptyObject == Body(TRUE, "object", <<>>, "", 0)


\* the lists handed to analyzeBatch when its progress is examined
ProgressInputs ==
    {FromGood(n) : n \in 0..(MaxTexts + 1)} \cup {FromBlank(MaxTexts + 1), <<BlankText>>}

\* the canonical labels in mixed case
MixedCase ==
    Body(TRUE, "flat",
         << [label |-> <<"POSITIVE">>, score |-> F(20, 100)],
            [label |-> <<"Negative">>, score |-> F(30, 100)],
            [label |-> <<"Neutral">>, score |-> F(50, 100)] >>, "", 0)

\* the labels of cardiffnlp/twitter-roberta-base-sentiment
LabelIds ==
    Body(TRUE, "nested",
         << [label |-> <<"LABEL_0">>, score |-> F(20, 100)],
            [label |-> <<"LABEL_1">>, score |-> F(30, 100)],
            [label |-> <<"LABEL_2">>, score |-> F(50, 100)] >>, "", 0)

\* 'negative or positive': a label with the words of both rules
BothRules ==
    Body(TRUE, "flat",
         << [label |-> <<"negative", Sep, "or", Sep, "positive">>, score |-> F(60, 100)],
            [label |-> <<"mixed">>, score |-> F(40, 100)] >>, "", 0)

\* '2 stars, not 4 stars', and a label no rule matches
BothStars ==
    Body(TRUE, "flat",
         << [label |-> <<"2 stars", Sep, "not", Sep, "4 stars">>, score |-> F(30, 100)],
            [label |-> <<"unknown">>, score |-> F(70, 100)] >>, "", 0)

\* the successful responses whose labels are examined
LabelResponses ==
    { Response(200, RobertaPositive), Response(200, StarsNegative),
      Response(200, MixedCase), Response(200, LabelIds), Response(200, BothRules),
      Response(200, BothStars) }

\* the responses the scheduler is driven with
FewResponses ==
    { Response(200, RobertaPositive), Response(404, NotJson), Response(500, ErrorBody) }

\* the responses the hook is driven with
HookResponses ==
    { Response(200, RobertaPositive), Response(200, StarsNegative), Response(500, ErrorBody) }

\* the responses the service on its own is driven with
AllResponses ==
    { Response(200, RobertaPositive), Response(200, StarsNegative),
      Response(200, NotJson), Response(200, EmptyArray),
      Response(404, NotJson),
      Response(401, ErrorBody), Response(403, NotJson), Response(429, ErrorBody),
      Response(503, LoadingBody),
      Response(500, NotJson), Response(500, ErrorBody), Response(500, LoadingBody),
      Response(400, EmptyObject) }

-----------------------------------------------------------------------------
(* Initial states                                                          *)

\* the module is loaded: new HuggingFaceService(); the hook's state is read from
\* an empty localStorage
InitService ==
    /\ apiKey = NoKey
    /\ requestQueue = <<>>
    /\ isProcessing = FALSE
    /\ reqs = <<>>
    /\ state = [ isLoading |-> FALSE, progress |-> Zero, error |-> NoError,
                 results |-> <<>>, batches |-> <<>> ]
    /\ storage = [ sentimentResults |-> Absent, sentimentBatches |-> Absent,
                   huggingface_api_key |-> Absent ]
    /\ calls = <<>>
    /\ fresh = 0
    /\ sinceDone = 0
    /\ started = <<>>
    /\ settled = <<>>
    /\ hasApiKey = FALSE

\* App has mounted: its effect stored and installed the key
Init ==
    /\ apiKey = trim(AppKey)
    /\ requestQueue = <<>>
    /\ isProcessing = FALSE
    /\ reqs = <<>>
    /\ state = [ isLoading |-> FALSE, progress |-> Zero, error |-> NoError,
                 results |-> <<>>, batches |-> <<>> ]
    /\ storage = [ sentimentResults |-> Absent, sentimentBatches |-> Absent,
                   huggingface_api_key |-> Item(AppKey) ]
    /\ calls = <<>>
    /\ fresh = 0
    /\ sinceDone = 0
    /\ started = <<>>
    /\ settled = <<>>
    /\ hasApiKey = TRUE

-----------------------------------------------------------------------------
(* Actions                                                                 *)

Fetching(i) == reqs[i].phase \in {"primary", "fallback"}

RECURSIVE nonBlankFrom(_, _)
nonBlankFrom(texts, k) ==
    IF k > Len(texts) THEN 0
    ELSE (IF NonBlank(texts[k]) THEN 1 ELSE 0) + nonBlankFrom(texts, k + 1)

RECURSIVE demandOf(_, _)
demandOf(cs, c) ==
    IF c > Len(cs) THEN 0
    ELSE (IF cs[c].status = "running" /\ ~cs[c].useDemo
          THEN nonBlankFrom(cs[c].texts, cs[c].i + 1) ELSE 0) + demandOf(cs, c + 1)

\* the closures pushed so far and those the running batches will still push
Demand == Len(reqs) + demandOf(calls, 1)

\* the model stops taking calls that would push more than MaxRequests closures
Room(texts, useDemo) ==
    Demand + (IF useDemo THEN 0 ELSE nonBlankFrom(texts, 1)) <= MaxRequests

\* Settings.handleSaveApiKey with k typed into the field
SaveApiKey(k) ==
    /\ trim(k) # <<>> /\ validateApiKey(k)
    /\ Become([setApiKey(Cur, trim(k)) EXCEPT !.storage.huggingface_api_key = Item(trim(k))])

\* Settings.handleClearApiKey
ClearApiKey ==
    /\ storage.huggingface_api_key # Absent
    /\ Become([Cur EXCEPT !.storage.huggingface_api_key = Absent])

\* Settings.handleTestConnection with k typed into the field, up to its await
TestConnection(k) ==
    /\ Room(<<TestMessage>>, FALSE)
    /\ trim(k) # <<>> /\ validateApiKey(k)
    /\ Become(analyzeSentiment(setApiKey(Cur, trim(k)), TestMessage, "testConnection"))

\* analyzeSingleText(text, useDemo), up to its await
AnalyzeSingleText(text, useDemo) ==
    /\ Len(calls) < MaxCalls /\ Room(<<text>>, useDemo)
    /\ Become(analyzeSingleTextCall(Cur, text, useDemo))

\* analyzeBatch(texts, batchName, useDemo), up to its first await
AnalyzeBatch(texts, batchName, useDemo) ==
    /\ Len(calls) < MaxCalls /\ Room(texts, useDemo)
    /\ Become(analyzeBatchCall(Cur, texts, batchName, useDemo))

\* the timer of analyzeSentimentDemo fires for call c, which draws rnd
DemoDone(c, rnd) ==
    /\ calls[c].status = "running" /\ calls[c].useDemo
    /\ Become(analysisDone(Cur, c, analyzeSentimentDemo(calls[c].texts[calls[c].i], rnd)))

\* the fetch of closure i returns response r
FetchReturns(i, r) ==
    /\ Fetching(i)
    /\ Become(fetchReturned(Cur, i, r))

\* the fetch of closure i throws a TypeError
FetchThrows(i, mentionsFetch) ==
    /\ Fetching(i)
    /\ Become(fetchThrew(Cur, i, mentionsFetch))

\* the setTimeout processQueue awaits after closure i fires; the loop goes on
DelayDone(i) ==
    /\ reqs[i].phase = "delay" /\ reqs[i].timer = 0
    /\ Become(loopStep([Cur EXCEPT !.reqs[i].phase = "done"]))

\* TickMs pass
Tick ==
    /\ \/ sinceDone < rateLimitDelay
       \/ \E i \in 1..Len(reqs) : reqs[i].timer > 0
    /\ sinceDone' = IF sinceDone + TickMs > rateLimitDelay THEN rateLimitDelay
                    ELSE sinceDone + TickMs
    /\ reqs' = [i \in 1..Len(reqs) |->
                   [reqs[i] EXCEPT !.timer = IF @ > TickMs THEN @ - TickMs ELSE 0]]
    /\ UNCHANGED <<apiKey, requestQueue, isProcessing, state, storage, calls, fresh,
                   started, settled, hasApiKey>>

\* TextAnalyzer.handleSubmit with text typed into the field
SubmitText(text) ==
    /\ NonBlank(text) /\ ~state.isLoading
    /\ AnalyzeSingleText(trim(text), ~hasApiKey)

\* BatchProcessor.handleSubmit with texts typed into the fields
SubmitBatch(texts, batchName) ==
    /\ SelectSeq(texts, NonBlank) # <<>> /\ ~state.isLoading
    /\ AnalyzeBatch(SelectSeq(texts, NonBlank), batchName, ~hasApiKey)

\* analyzeBatch(texts, batchName, true), called when no analysis is running
BatchWhenIdle(texts, batchName) ==
    /\ ~state.isLoading
    /\ AnalyzeBatch(texts, batchName, TRUE)

\* analyzeSingleText(text, true), called when no analysis is running
DemoText(text) ==
    /\ Len(calls) < MaxDemos /\ ~state.isLoading
    /\ AnalyzeSingleText(text, TRUE)

\* clearResults()
ClearResults == Become(clearResults(Cur))

\* deleteResult(id), as the history view calls it for a Result it lists
DeleteResult(id) == Become(deleteResult(Cur, id))

\* deleteBatch(id), as the history view calls it for a Batch it lists
DeleteBatch(id) == Become(deleteBatch(Cur, id))

\* any caller calls setApiKey(k)
SetApiKey(k) == Become(setApiKey(Cur, k))

\* any caller calls analyzeSentiment(text)
AnalyzeSentiment(text) ==
    /\ Len(reqs) < MaxProbes
    /\ Become(analyzeSentiment(Cur, text, "testConnection"))

\* a caller calls analyzeSentiment(text) to examine the analysis
AnalyzeText(text) ==
    /\ Len(reqs) < MaxAnalyses
    /\ Become(analyzeSentiment(Cur, text, "direct"))

-----------------------------------------------------------------------------
(* Specifications                                                          *)

\* the application, with every kind of caller of the request queue
Next ==
    \/ \E k \in TypedKeys : TestConnection(k)
    \/ AnalyzeSingleText(GoodMovie, FALSE)
    \/ AnalyzeBatch(FromGood(MaxTexts), "t1", FALSE)
    \/ \E i \in 1..Len(reqs), r \in FewResponses : FetchReturns(i, r)
    \/ \E i \in 1..Len(reqs) : DelayDone(i)
    \/ Tick

Spec == Init /\ [][Next]_vars

\* the application, with every kind of batch
NextHook ==
    \/ AnalyzeSingleText(GoodMovie, FALSE)
    \/ \E texts \in BatchInputs : AnalyzeBatch(texts, "t1", FALSE)
    \/ AnalyzeBatch(FromGood(MaxTexts), "t1", TRUE)
    \/ \E c \in 1..Len(calls), rnd \in HookDraws : DemoDone(c, rnd)
    \/ \E i \in 1..Len(reqs), r \in HookResponses : FetchReturns(i, r)
    \/ \E i \in 1..Len(reqs) : DelayDone(i)
    \/ Tick

SpecHook == Init /\ [][NextHook]_vars

\* the application's service, with every kind of response
NextClient ==
    \/ \E k \in TypedKeys : SaveApiKey(k)
    \/ AnalyzeSentiment(GoodMovie)
    \/ \E i \in 1..Len(reqs), r \in AllResponses : FetchReturns(i, r)
    \/ \E i \in 1..Len(reqs), mentionsFetch \in BOOLEAN : FetchThrows(i, mentionsFetch)
    \/ \E i \in 1..Len(reqs) : DelayDone(i)
    \/ Tick

SpecClient == Init /\ [][NextClient]_vars

\* the service on its own, with any caller and any credential
NextService ==
    \/ \E k \in KeyInputs : SetApiKey(k)
    \/ AnalyzeSentiment(GoodMovie)
    \/ \E i \in 1..Len(reqs), r \in FewResponses : FetchReturns(i, r)
    \/ \E i \in 1..Len(reqs) : DelayDone(i)
    \/ Tick

SpecService == InitService /\ [][NextService]_vars

\* the hook's collections: simulated analyses, deletions and clearing
NextStore ==
    \/ \E text \in {GoodMovie} : AnalyzeSingleText(text, TRUE)
    \/ \E texts \in StoreInputs : AnalyzeBatch(texts, "t1", TRUE)
    \/ \E c \in 1..Len(calls), rnd \in HookDraws : DemoDone(c, rnd)
    \/ \E j \in 1..Len(state.results) : DeleteResult(state.results[j].id)
    \/ \E j \in 1..Len(state.batches) : DeleteBatch(state.batches[j].id)
    \/ ClearResults

SpecStore == Init /\ [][NextStore]_vars

\* the analysis of one response: mapping, normalising, verdict, keywords
NextAnalysis ==
    \/ \E text \in AnalysisTexts : AnalyzeText(text)
    \/ \E i \in 1..Len(reqs), r \in AnalysisResponses : FetchReturns(i, r)
    \/ \E i \in 1..Len(reqs) : DelayDone(i)
    \/ Tick

SpecAnalysis == Init /\ [][NextAnalysis]_vars

\* the views that request analyses, and the Settings view
NextViews ==
    \/ \E text \in {GoodMovie, BlankText} : SubmitText(text)
    \/ \E texts \in {FromGood(MaxTexts), FromBlank(MaxTexts)} : SubmitBatch(texts, "t1")
    \/ \E k \in TypedKeys : SaveApiKey(k)
    \/ ClearApiKey
    \/ \E i \in 1..Len(reqs), r \in HookResponses : FetchReturns(i, r)
    \/ \E i \in 1..Len(reqs) : DelayDone(i)
    \/ Tick

SpecViews == Init /\ [][NextViews]_vars

\* batches run one after the other, blank entries included
NextProgress ==
    \/ \E texts \in ProgressInputs : BatchWhenIdle(texts, "t1")
    \/ \E c \in 1..Len(calls), rnd \in ProgressDraws : DemoDone(c, rnd)

SpecProgress == Init /\ [][NextProgress]_vars

\* the Demo Simulator, with every kind of text and draw
NextDemo ==
    \/ \E text \in DemoTexts : DemoText(text)
    \/ \E c \in 1..Len(calls), rnd \in RandomDraws : DemoDone(c, rnd)

SpecDemo == Init /\ [][NextDemo]_vars

\* the mapping of the labels of one response
NextLabels ==
    \/ \E text \in AnalysisTexts : AnalyzeText(text)
    \/ \E i \in 1..Len(reqs), r \in LabelResponses : FetchReturns(i, r)
    \/ \E i \in 1..Len(reqs) : DelayDone(i)
    \/ Tick

SpecLabels == Init /\ [][NextLabels]_vars

\* overlapping analyses and deletions
NextOverlap ==
    \/ AnalyzeSingleText(GoodMovie, TRUE)
    \/ AnalyzeBatch(FromGood(MaxTexts), "t1", TRUE)
    \/ \E c \in 1..Len(calls), rnd \in HookDraws : DemoDone(c, rnd)
    \/ \E j \in 1..Len(state.results) : DeleteResult(state.results[j].id)
    \/ \E j \in 1..Len(state.batches) : DeleteBatch(state.batches[j].id)

SpecOverlap == Init /\ [][NextOverlap]_vars

NextLive ==
    \/ \E text \in {GoodMovie, TerribleFilm} : AnalyzeSentiment(text)
    \/ \E i \in 1..Len(reqs), r \in FewResponses : FetchReturns(i, r)
    \/ \E i \in 1..Len(reqs) : DelayDone(i)
    \/ Tick

\* every fetch returns: weak fairness of FetchReturns, with ENABLED written as the
\* state predicate it is (a fetch is in flight), since a fetch that returns always
\* changes reqs
FetchFair ==
    \/ []<>(\A i \in 1..Len(reqs) : ~Fetching(i))
    \/ []<><<\E i \in 1..Len(reqs), r \in FewResponses : FetchReturns(i, r)>>_vars

\* the event loop's fairness: time passes, timers fire, and every fetch returns
Fairness ==
    /\ WF_vars(Tick)
    /\ WF_vars(\E i \in 1..Len(reqs) : DelayDone(i))
    /\ FetchFair

SpecFair == Init /\ [][NextLive]_vars /\ Fairness

-----------------------------------------------------------------------------
(* The taxonomy of errors of the specification, by the messages of the code *)

ErrorType(error) ==
    CASE error.id \in {"API key not set", "Invalid API key format"} -> "ConfigurationError"
      [] error.id \in {"Invalid API key", "Access forbidden"} -> "AuthError"
      [] error.id = "Rate limit exceeded" -> "RateLimitError"
      [] error.id = "Model is currently loading" -> "ModelLoadingError"
      [] error.id = "Model not found" -> "ModelUnavailableError"
      [] error.id \in {"Invalid response format", "Unexpected API response format"}
            -> "ResponseFormatError"
      [] error.id = "Network error" -> "NetworkError"
      [] error.id \in {"API request failed", "server"} -> "RequestError"
      [] OTHER -> "Error"

Requests == 1..Len(reqs)
Last(seq) == seq[Len(seq)]
IsSettled(i) == reqs[i].out.tag # "pending"
InQueue(i) == \E j \in 1..Len(requestQueue) : requestQueue[j] = i
InFlight == {i \in Requests : reqs[i].phase \in {"primary", "fallback"}}

-----------------------------------------------------------------------------
(* C1..C10                                                                 *)

\* C1: in every reachable state at most one closure of the queue has a fetch in
\* flight, whoever called analyzeSentiment and however the calls overlap.
C1_AtMostOneInFlight == Cardinality(InFlight) <= 1

\* a fetch is in flight while two more closures wait in the queue, one of them
\* pushed by testConnection and one by the hook
C1_Witness ==
    /\ Cardinality(InFlight) = 1
    /\ Len(requestQueue) >= 2
    /\ \E i, j \in Requests :
        /\ InQueue(i) /\ reqs[i].caller = "testConnection"
        /\ (InQueue(j) \/ j \in InFlight) /\ reqs[j].caller = "hook"

\* C2: a closure that is started after another one settled starts its fetch no
\* earlier than rateLimitDelay after that, whether the other resolved or rejected.
C2_MinimumSpacing ==
    \A i \in Requests :
        (reqs[i].fetched # <<>> /\ reqs[i].gap # NoGap) => reqs[i].gap >= rateLimitDelay

\* a closure fetched after the one before it rejected
C2_Witness ==
    \E i \in Requests :
        /\ i > 1 /\ reqs[i].fetched # <<>> /\ reqs[i].gap >= rateLimitDelay
        /\ reqs[i - 1].out.tag = "err"

\* C3: the closures are started and settled in the order they were pushed.
C3_Fifo ==
    /\ \A j \in 1..Len(started) : started[j] = j
    /\ \A j \in 1..Len(settled) : settled[j] = j

\* three closures settled, the later ones pushed while the first was in flight
C3_Witness ==
    /\ Len(settled) >= 3
    /\ \E i \in Requests : reqs[i].gap # NoGap /\ ~reqs[i].late

\* C4: a closure that rejects rejects its own caller only: nothing leaves the queue
\* unstarted, processQueue keeps running while closures wait, every closure
\* settles by its own fetch, and every caller of the hook gets the outcome of the
\* closure it awaits.
C4_FailureIsolated ==
    /\ \A i \in Requests : (reqs[i].phase = "queued") <=> InQueue(i)
    /\ Len(requestQueue) > 0 =>
          /\ isProcessing
          /\ \E i \in Requests : reqs[i].phase \in {"primary", "fallback", "delay"}
    /\ \A i \in Requests :
          /\ IsSettled(i) <=> reqs[i].phase \in {"delay", "done"}
          /\ (IsSettled(i) /\ reqs[i].resps # <<>>) =>
                ((reqs[i].out.tag = "ok") <=>
                    (ok(Last(reqs[i].resps).status)
                     /\ parseResults(Last(reqs[i].resps).body).tag = "ok"))
    /\ \A c \in 1..Len(calls) :
          ~calls[c].useDemo /\ calls[c].awaiting # 0 =>
              LET out == reqs[calls[c].awaiting].out
              IN /\ calls[c].status = "running" => out = Pending
                 /\ calls[c].status = "threw" => out = Rejected(calls[c].ret)
                 /\ calls[c].status = "returned" => out.tag = "ok"

\* a closure rejected and one pushed behind it, while it was in flight, resolved
C4_Witness ==
    \E i, j \in Requests :
        /\ i < j /\ reqs[i].out.tag = "err" /\ reqs[j].out.tag = "ok"
        /\ reqs[j].gap # NoGap

\* C5: with the fairness above, every closure pushed is eventually settled.
C5_EventuallySettled ==
    \A i \in 1..MaxProbes :
        (Len(reqs) >= i) ~> (Len(reqs) >= i /\ reqs[i].out.tag # "pending")

\* a closure pushed during the delay after the last queued closure has settled
C5_Witness == \E i \in Requests : reqs[i].late /\ IsSettled(i)

\* what one call of makeApiCall makes of response r, were it not a 404
CallOutcome(text, r) ==
    IF ~ok(r.status) THEN Rejected(statusError(r))
    ELSE IF parseResults(r.body).tag = "err" THEN parseResults(r.body)
    ELSE Resolved(analyzeResults(text, parseResults(r.body).value))

\* C6: a primary 404 is followed by exactly one fetch, of the fallback endpoint,
\* whose outcome is the outcome of the closure; no closure fetches more than twice.
C6_Failover ==
    \A i \in Requests :
        LET r == reqs[i]
        IN /\ r.fetched \in {<<>>, <<"primary">>, <<"primary", "fallback">>}
           /\ Len(r.resps) <= Len(r.fetched)
           /\ (Len(r.resps) >= 1 /\ r.resps[1].status = 404) => Len(r.fetched) = 2
           /\ Len(r.fetched) = 2 => r.resps[1].status = 404
           /\ Len(r.resps) = 2 =>
                IF r.resps[2].status = 404
                THEN /\ r.out.tag = "err"
                     /\ ErrorType(r.out.error) = "ModelUnavailableError"
                ELSE IF r.resps[2] = NoResponse
                THEN r.out.tag = "err" /\ r.out.error.id \in {"Network error", "TypeError"}
                ELSE r.out = CallOutcome(r.text, r.resps[2])

\* a fallback answered 500 with an error body and the closure rejected with it
C6_Witness ==
    \E i \in Requests :
        /\ reqs[i].fetched = <<"primary", "fallback">>
        /\ Len(reqs[i].resps) = 2 /\ reqs[i].resps[2] = Response(500, ErrorBody)
        /\ reqs[i].out = Rejected(ServerMessage(ErrorBody))

\* the stored credential is absent, empty or does not begin with the prefix
BadCredential(key) ==
    \/ key = NoKey
    \/ key = <<>>
    \/ Len(key) < Len(KeyPrefix)
    \/ \E j \in 1..Len(KeyPrefix) : key[j] # KeyPrefix[j]

\* C7: a closure started while the credential is absent, empty or without the
\* prefix rejects with a ConfigurationError and fetches nothing.
C7_NoCredentialNoFetch ==
    \A i \in Requests :
        (reqs[i].phase # "queued" /\ BadCredential(reqs[i].keyAtStart)) =>
            /\ reqs[i].out.tag = "err"
            /\ ErrorType(reqs[i].out.error) = "ConfigurationError"
            /\ reqs[i].fetched = <<>>

\* one closure started without a credential, another with a malformed one
C7_Witness ==
    \E i, j \in Requests :
        /\ reqs[i].phase # "queued" /\ reqs[i].keyAtStart \in {NoKey, <<>>}
        /\ reqs[j].phase # "queued" /\ reqs[j].keyAtStart = <<"x", "y", "z">>

\* the type the specification gives a status that is neither 2xx nor 404
TypeOfStatus(status) ==
    IF status \in {401, 403} THEN "AuthError"
    ELSE IF status = 429 THEN "RateLimitError"
    ELSE IF status = 503 THEN "ModelLoadingError"
    ELSE "RequestError"

\* the closures settled by a response that is neither 2xx nor 404
FailedByStatus ==
    {i \in Requests :
        /\ IsSettled(i) /\ reqs[i].resps # <<>>
        /\ Last(reqs[i].resps) # NoResponse
        /\ ~ok(Last(reqs[i].resps).status)
        /\ Last(reqs[i].resps).status # 404}

\* C8 as stated: the error has the type of its status, and a RequestError carries
\* the status and the body.
C8_AsStated ==
    \A i \in FailedByStatus :
        LET r == Last(reqs[i].resps)
            error == reqs[i].out.error
        IN /\ ErrorType(error) = TypeOfStatus(r.status)
           /\ TypeOfStatus(r.status) = "RequestError" =>
                /\ error.status = r.status
                /\ error.error = r.body.error
                /\ error.estimated_time = r.body.estimated_time

\* C8, amended: the error has the type of its status; the message of a
\* RequestError is the error text of the body, with its estimated time, when the
\* body is a JSON object with a non-empty error, and the status otherwise.
C8_TypedErrors ==
    \A i \in FailedByStatus :
        LET r == Last(reqs[i].resps)
            error == reqs[i].out.error
        IN /\ reqs[i].out.tag = "err"
           /\ ErrorType(error) = TypeOfStatus(r.status)
           /\ TypeOfStatus(r.status) = "RequestError" =>
                IF r.body.json /\ r.body.shape = "object" /\ r.body.error # ""
                THEN /\ error.status = 0
                     /\ error.error = r.body.error
                     /\ error.estimated_time = r.body.estimated_time
                ELSE /\ error.status = r.status
                     /\ error.error = ""

\* a 403, a 500 with an error body and a 500 without one have been answered
C8_Witness ==
    /\ \E i \in FailedByStatus : Last(reqs[i].resps).status = 500
                                  /\ reqs[i].out.error.error = "overloaded"
    /\ \E i \in FailedByStatus : Last(reqs[i].resps).status \in {401, 403, 429, 503}

BatchCalls == {c \in 1..Len(calls) : calls[c].kind = "batch"}

Ids(results) == {results[j].id : j \in 1..Len(results)}

StoredResults ==
    IF storage.sentimentResults = Absent THEN <<>> ELSE storage.sentimentResults[1]

StoredBatches ==
    IF storage.sentimentBatches = Absent THEN <<>> ELSE storage.sentimentBatches[1]

\* nothing of a failed batch is kept: its Results are in no collection, and every
\* Batch kept is the one a call returned
C9_NothingKept ==
    /\ \A c \in BatchCalls :
          calls[c].status = "threw" =>
              /\ Ids(calls[c].results) \cap Ids(state.results) = {}
              /\ Ids(calls[c].results) \cap Ids(StoredResults) = {}
    /\ \A j \in 1..Len(state.batches) :
          \E c \in BatchCalls : calls[c].status = "returned" /\ calls[c].ret = state.batches[j]
    /\ \A j \in 1..Len(StoredBatches) :
          \E c \in BatchCalls :
              calls[c].status = "returned" /\ batchToJSON(calls[c].ret) = StoredBatches[j]

\* the step in which a batch fails leaves the collections and the storage as they
\* were, clears isLoading, records the error and throws it
C9_FailureStep ==
    \A c \in 1..Len(calls') :
        ( /\ calls'[c].kind = "batch" /\ calls'[c].status = "threw"
          /\ (c > Len(calls) \/ calls[c].status = "running") ) =>
            /\ state'.isLoading = FALSE
            /\ state'.error = calls'[c].ret
            /\ reqs'[calls'[c].awaiting].out = Rejected(calls'[c].ret)
            /\ state'.results = state.results
            /\ state'.batches = state.batches
            /\ storage' = storage

\* C9: analyzeBatch is all-or-nothing.
C9_AllOrNothing == [][C9_FailureStep /\ C9_NothingKept']_vars

\* a batch failed after it had produced a Result
C9_Witness ==
    \E c \in BatchCalls : calls[c].status = "threw" /\ Len(calls[c].results) >= 1

IsBlank(text) == \A j \in 1..Len(text) : text[j] = Sep

RECURSIVE WithoutBlanks(_)
WithoutBlanks(texts) ==
    IF texts = <<>> THEN <<>>
    ELSE (IF IsBlank(Head(texts)) THEN <<>> ELSE <<Head(texts)>>) \o WithoutBlanks(Tail(texts))

\* C10: a batch returned holds one Result per non-blank text, in the order of the
\* texts, and its summary counts them, by label too.
C10_BatchSummary ==
    \A c \in BatchCalls :
        calls[c].status = "returned" =>
            LET batch == calls[c].ret
                kept == WithoutBlanks(calls[c].texts)
                count(label) ==
                    Cardinality({j \in 1..Len(batch.results) :
                                    batch.results[j].sentiment = label})
            IN /\ Len(batch.results) = Len(kept)
               /\ \A j \in 1..Len(kept) : batch.results[j].text = kept[j]
               /\ \A j, h \in 1..Len(batch.results) :
                     j # h => batch.results[j].id # batch.results[h].id
               /\ batch.summary.totalTexts = Len(kept)
               /\ batch.summary.totalTexts =
                     batch.summary.positiveCount + batch.summary.negativeCount
                     + batch.summary.neutralCount
               /\ batch.summary.positiveCount = count("positive")
               /\ batch.summary.negativeCount = count("negative")
               /\ batch.summary.neutralCount = count("neutral")
               /\ (calls[c].useDemo /\ kept = <<GoodMovie, TerribleFilm>>) =>
                     /\ batch.summary.totalTexts = 2
                     /\ batch.results[1].sentiment = "positive"
                     /\ batch.results[2].sentiment = "negative"

\* the simulated batch of "good movie", "terrible film" and a live batch with a
\* blank text have both returned
C10_Witness ==
    \E c, d \in BatchCalls :
        /\ calls[c].status = "returned" /\ calls[c].useDemo
        /\ calls[c].texts = <<GoodMovie, TerribleFilm>>
        /\ calls[d].status = "returned" /\ ~calls[d].useDemo
        /\ Len(calls[d].ret.results) >= 1
        /\ Len(calls[d].ret.results) < Len(calls[d].texts)

-----------------------------------------------------------------------------
(* C11..C20                                                                *)

\* seq without the elements whose id is one of ids, in the order of seq
Without(seq, ids) == SelectSeq(seq, LAMBDA x : x.id \notin ids)

Members(batch) == Ids(batch.results)

ReturnedBatches == {calls[c].ret : c \in {d \in BatchCalls : calls[d].status = "returned"}}

\* C11: a step of deleteBatch(id) removes that Batch and the Results whose ids are
\* its members' ids; the other Batches and Results stay, in their order.
C11_DeleteBatch ==
    [][\A j \in 1..Len(state.batches) :
          DeleteBatch(state.batches[j].id) =>
              /\ state'.batches = Without(state.batches, {state.batches[j].id})
              /\ Len(state'.batches) = Len(state.batches) - 1
              /\ state'.results = Without(state.results, Members(state.batches[j]))]_vars

\* a Batch was deleted, and a Result made before it with the text of one of its
\* members is still in the collection
C11_Witness ==
    \E b \in ReturnedBatches :
        /\ \A j \in 1..Len(state.batches) : state.batches[j].id # b.id
        /\ Members(b) # {} /\ Members(b) \cap Ids(state.results) = {}
        /\ \E j \in 1..Len(state.results), m \in 1..Len(b.results) :
              /\ state.results[j].text = b.results[m].text
              /\ state.results[j].id[2] < b.id[2]

\* every member of a Batch of the collection is in the Result collection
C12_MembersKept ==
    \A j \in 1..Len(state.batches) : Members(state.batches[j]) \subseteq Ids(state.results)

\* C12 as stated: the members are kept in every reachable state.
C12_AsStated == C12_MembersKept

\* C12, amended: every step that is not a deleteResult keeps the members of the
\* Batches in the Result collection.
C12_KeptButByDeleteResult ==
    [][(C12_MembersKept /\ ~(\E j \in 1..Len(state.results) :
                                DeleteResult(state.results[j].id)))
        => C12_MembersKept']_vars

\* a Batch with members is in the collection with all its members, after another
\* Batch was deleted
C12_Witness ==
    /\ C12_MembersKept
    /\ \E j \in 1..Len(state.batches) : Members(state.batches[j]) # {}
    /\ \E b \in ReturnedBatches :
          Members(b) # {} /\ \A j \in 1..Len(state.batches) : state.batches[j].id # b.id

\* C13: a step of deleteResult(id) removes the Result with that id and no other,
\* keeps the order of the rest, and leaves every Batch as it was.
C13_DeleteResult ==
    [][\A j \in 1..Len(state.results) :
          DeleteResult(state.results[j].id) =>
              /\ state'.results = Without(state.results, {state.results[j].id})
              /\ Len(state'.results) = Len(state.results) - 1
              /\ state'.batches = state.batches]_vars

\* a member of a Batch of the collection was deleted from the Result collection
C13_Witness ==
    \E j \in 1..Len(state.batches) :
        /\ Members(state.batches[j]) # {}
        /\ ~(Members(state.batches[j]) \subseteq Ids(state.results))
        /\ state.batches[j].summary.totalTexts = Len(state.batches[j].results)

\* C14: a step of clearResults leaves both collections empty and both records
\* erased, so that the hook mounted again starts with empty collections.
C14_ClearAll ==
    [][ClearResults =>
          /\ state'.results = <<>> /\ state'.batches = <<>>
          /\ storage'.sentimentResults = Absent /\ storage'.sentimentBatches = Absent
          /\ hydrate(storage') = [results |-> <<>>, batches |-> <<>>]]_vars

\* the collections were cleared after Results and Batches had been stored
C14_Witness ==
    /\ storage.sentimentResults = Absent /\ storage.sentimentBatches = Absent
    /\ state.results = <<>> /\ state.batches = <<>>
    /\ \E b \in ReturnedBatches : Members(b) # {}

\* C15 as stated: in every state between the operations, the hook mounted again
\* over the persisted records would start with the collections it has now.
C15_AsStated == hydrate(storage) = [results |-> state.results, batches |-> state.batches]

SingleCalls == {c \in 1..Len(calls) : calls[c].kind = "single"}

\* C16: the step in which analyzeSingleText fails leaves the collections and the
\* persisted records as they were, records the error, clears isLoading and throws
\* the error of the closure it awaited.
C16_SingleFailure ==
    [][\A c \in 1..Len(calls') :
          ( /\ calls'[c].kind = "single" /\ calls'[c].status = "threw"
            /\ (c > Len(calls) \/ calls[c].status = "running") ) =>
              /\ state'.results = state.results
              /\ state'.batches = state.batches
              /\ storage' = storage
              /\ state'.error = calls'[c].ret
              /\ state'.isLoading = FALSE
              /\ reqs'[calls'[c].awaiting].out = Rejected(calls'[c].ret)]_vars

\* an analyzeSingleText failed while Results of an earlier call were stored
C16_Witness ==
    \E c \in SingleCalls :
        /\ calls[c].status = "threw"
        /\ state.results # <<>> /\ storage.sentimentResults # Absent
        /\ state.error = calls[c].ret /\ ~state.isLoading

\* C17 as stated: isLoading is set in every state in which a call of
\* analyzeSingleText or analyzeBatch has started and has neither returned nor thrown.
C17_AsStated == (\E c \in 1..Len(calls) : calls[c].status = "running") => state.isLoading

\* the closures that resolved, each with the analysis of its last response
Analysed == {i \in Requests : reqs[i].out.tag = "ok"}

RawOf(i) == parseResults(Last(reqs[i].resps).body).value

RECURSIVE RawSum(_)
RawSum(results) ==
    IF results = <<>> THEN Zero ELSE FAdd(Head(results).score, RawSum(Tail(results)))

SumOf(scores) == FAdd(scores.positive, FAdd(scores.negative, scores.neutral))

\* C18 as stated: the three scores of every analysis sum to 1 within 0.01, or are
\* all zero, which they are exactly when the raw scores sum to zero.
C18_AsStated ==
    \A i \in Analysed :
        LET scores == reqs[i].out.value.scores
        IN IF RawSum(RawOf(i)) = Zero THEN scores = ZeroScores
           ELSE /\ FLe(FAbs(FSub(SumOf(scores), One)), F(1, 100))
                /\ scores # ZeroScores

Order(label) == CHOOSE j \in 1..Len(Sentiments) : Sentiments[j] = label

IsMaximal(scores, label) == \A j \in 1..Len(Sentiments) : ~FGt(scores[Sentiments[j]], scores[label])

\* C19 as stated: the verdict has a maximal score and is the first such label in
\* the order positive, negative, neutral.
C19_AsStated ==
    \A i \in Analysed :
        LET scores == reqs[i].out.value.scores
            verdict == reqs[i].out.value.sentiment
        IN /\ IsMaximal(scores, verdict)
           /\ \A j \in 1..(Order(verdict) - 1) : ~IsMaximal(scores, Sentiments[j])

\* C19, amended: the verdict has a maximal score and is the last such label in the
\* order positive, negative, neutral.
C19_LastMaximumWins ==
    \A i \in Analysed :
        LET scores == reqs[i].out.value.scores
            verdict == reqs[i].out.value.sentiment
        IN /\ IsMaximal(scores, verdict)
           /\ \A j \in (Order(verdict) + 1)..Len(Sentiments) :
                 ~IsMaximal(scores, Sentiments[j])

\* positive and negative tied above neutral and the verdict is negative
C19_Witness ==
    \E i \in Analysed :
        LET scores == reqs[i].out.value.scores
        IN /\ scores.positive = scores.negative
           /\ FGt(scores.positive, scores.neutral)
           /\ reqs[i].out.value.sentiment = "negative"

IsLexiconWord(w) == w \in positiveWords \cup negativeWords

\* the places of text's words where a lexicon word occurs for the first time
FirstOccurrences(ws) ==
    {p \in 1..Len(ws) : IsLexiconWord(ws[p]) /\ \A q \in 1..(p - 1) : ws[q] # ws[p]}

\* C20: the keywords of every analysis are the distinct lexicon words of the text
\* in the order of their first occurrence, cut to 5, each tagged with the sentiment
\* of its lexicon and the weight 0.8, whatever the verdict.
C20_Keywords ==
    \A i \in Analysed :
        LET keywords == reqs[i].out.value.keywords
            ws == Words(reqs[i].text)
            first == FirstOccurrences(ws)
        IN /\ Len(keywords) = (IF Cardinality(first) < 5 THEN Cardinality(first) ELSE 5)
           /\ \A j, h \in 1..Len(keywords) : j # h => keywords[j].word # keywords[h].word
           /\ \A j \in 1..Len(keywords) :
                 /\ \E p \in first :
                       /\ Cardinality({q \in first : q < p}) = j - 1
                       /\ keywords[j].word = ws[p]
                 /\ keywords[j].sentiment =
                       (IF keywords[j].word \in positiveWords THEN "positive" ELSE "negative")
                 /\ keywords[j].weight = F(8, 10)

\* a text with seven distinct lexicon words, one of them twice, gave five keywords,
\* and a text judged negative gave positive keywords
C20_Witness ==
    /\ \E i \in Analysed :
          /\ Cardinality(FirstOccurrences(Words(reqs[i].text))) > 5
          /\ Len(reqs[i].out.value.keywords) = 5
    /\ \E i \in Analysed :
          /\ reqs[i].out.value.sentiment = "negative"
          /\ \E j \in 1..Len(reqs[i].out.value.keywords) :
                reqs[i].out.value.keywords[j].sentiment = "positive"

-----------------------------------------------------------------------------
(* C21: when no credential is configured (cleared in Settings), every analysis
   request is routed through the Demo Simulator: a handler invoked by a view
   while the stored credential is absent is invoked with useDemo set. *)

NoCredential == storage.huggingface_api_key = Absent

C21_AsStated ==
    [][(NoCredential /\ Len(calls') = Len(calls) + 1) => Last(calls').useDemo]_vars

-----------------------------------------------------------------------------
(* C22: the Results of one batch are one contiguous block of the Result
   collection, in the order of their source texts, and the Results of a call
   that completed later precede those of every call that completed earlier,
   even when a single analysis completed while the batch was running. *)

Returned == {c \in 1..Len(calls) : calls[c].status = "returned"}

\* the Results call c produced, in the order it produced them
Produced(c) ==
    IF calls[c].kind = "batch" THEN calls[c].ret.results ELSE <<calls[c].ret>>

\* when call c completed: the number of the record it created last
CompletedAt(c) == calls[c].ret.id[2]

\* where the Results of call c are in the Result collection
PlacesOf(c) == {j \in 1..Len(state.results) : state.results[j].id \in Ids(Produced(c))}

C22_Blocks ==
    /\ \A c \in Returned :
          /\ [j \in 1..Len(Produced(c)) |-> Produced(c)[j].text]
                 = WithoutBlanks(calls[c].texts)
          /\ \A j1, j2 \in PlacesOf(c), j \in 1..Len(state.results) :
                 j1 < j /\ j < j2 => j \in PlacesOf(c)
          /\ SelectSeq(state.results, LAMBDA x : x.id \in Ids(Produced(c)))
                 = SelectSeq(Produced(c), LAMBDA x : x.id \in Ids(state.results))
    /\ \A c, d \in Returned :
          CompletedAt(c) > CompletedAt(d)
             => \A j \in PlacesOf(c), k \in PlacesOf(d) : j < k

\* a single analysis completed between the two Results of a batch, and all three
\* Results are in the collection
C22_Witness ==
    \E c, d \in Returned :
        /\ calls[c].kind = "batch" /\ calls[d].kind = "single"
        /\ Len(Produced(c)) = 2
        /\ Produced(c)[1].id[2] < CompletedAt(d)
        /\ CompletedAt(d) < Produced(c)[2].id[2]
        /\ Ids(Produced(c)) \cup Ids(Produced(d)) \subseteq Ids(state.results)

-----------------------------------------------------------------------------
(* C23 as stated: when several raw labels map to the same bucket, the value of
   the bucket before rescaling is the sum of their raw scores (each within
   [0,1]), so the scores of every analysis are the rescaled sums. *)

Clamped(score) == FMax(Zero, FMin(One, score))

RECURSIVE BucketSum(_, _)
BucketSum(results, label) ==
    IF results = <<>> THEN Zero
    ELSE FAdd(IF mapSentimentLabel(Head(results).label) = label
              THEN Clamped(Head(results).score) ELSE Zero,
              BucketSum(Tail(results), label))

BucketSums(results) == [label \in DOMAIN ZeroScores |-> BucketSum(results, label)]

C23_AsStated ==
    \A i \in Analysed :
        reqs[i].out.value.scores
           = normalizeScores(BucketSums(RawOf(i)), SumOf(BucketSums(RawOf(i))))

-----------------------------------------------------------------------------
(* C24 as stated: the Result collection and the Batch collection are ordered
   most-recent-first by creation: a record created later never appears after a
   record created earlier. *)

C24_AsStated ==
    /\ \A j, k \in 1..Len(state.results) :
          j < k => state.results[j].timestamp.date >= state.results[k].timestamp.date
    /\ \A j, k \in 1..Len(state.batches) :
          j < k => state.batches[j].createdAt.date >= state.batches[k].createdAt.date

SameBatch(r1, r2) ==
    \E c \in Returned :
        calls[c].kind = "batch" /\ {r1.id, r2.id} \subseteq Ids(Produced(c))

\* the Result is one of a batch that completed after `date`
InBatchCompletedAfter(result, date) ==
    \E c \in Returned :
        /\ calls[c].kind = "batch" /\ result.id \in Ids(Produced(c))
        /\ CompletedAt(c) > date

(* C24: the Batch collection is ordered most-recent-first by creation; in the
   Result collection the Results of one batch are in the order of their
   creation, and a Result created earlier precedes a Result created later only
   when it is one of a batch that completed after the later one was created. *)
C24_RecentFirstButInBatch ==
    /\ \A j, k \in 1..Len(state.results) :
          j < k =>
             IF SameBatch(state.results[j], state.results[k])
             THEN state.results[j].timestamp.date < state.results[k].timestamp.date
             ELSE \/ state.results[j].timestamp.date > state.results[k].timestamp.date
                  \/ InBatchCompletedAfter(state.results[j],
                                           state.results[k].timestamp.date)
    /\ \A j, k \in 1..Len(state.batches) :
          j < k => state.batches[j].createdAt.date > state.batches[k].createdAt.date

\* two Batches with two Results each are in the collections
C24_Witness ==
    /\ Len(state.batches) = 2
    /\ Len(state.results) = 4
    /\ SameBatch(state.results[1], state.results[2])
    /\ ~SameBatch(state.results[2], state.results[3])

-----------------------------------------------------------------------------
(* C25 as stated: during analyzeBatch blank entries are filtered out, and after
   each non-blank text completes progress is (texts completed so far / number
   of non-blank texts) x 100; progress stays within [0,100], never decreases
   during one batch, and is 100 when the batch succeeds. *)

Hundred == F(100, 1)

InRange(progress) == FLe(Zero, progress) /\ FLe(progress, Hundred)

\* call c was awaiting a text before the step
WasRunning(c) == c <= Len(calls) /\ calls[c].status = "running"

\* the text call c was awaiting completes in the step
Completes(c) == WasRunning(c) /\ Len(calls'[c].results) = Len(calls[c].results) + 1

\* call c returns its Batch in the step
Succeeds(c) ==
    /\ calls'[c].status = "returned"
    /\ c <= Len(calls) => calls[c].status = "running"

NewBatchCalls == {c \in 1..Len(calls') : calls'[c].kind = "batch"}

C25_AsStated ==
    [][\A c \in NewBatchCalls :
          /\ calls'[c].results # <<>> =>
                [j \in 1..Len(calls'[c].results) |-> calls'[c].results[j].text]
                   = SubSeq(WithoutBlanks(calls'[c].texts), 1, Len(calls'[c].results))
          /\ Completes(c) =>
                state'.progress
                   = FMul(F(Len(calls'[c].results), Len(WithoutBlanks(calls'[c].texts))),
                          Hundred)
          /\ InRange(state'.progress)
          /\ WasRunning(c) => FLe(state.progress, state'.progress)
          /\ Succeeds(c) => state'.progress = Hundred]_vars

\* the entries call c has gone through after the step, blank ones included
Processed(c) ==
    IF calls'[c].status = "running" THEN calls'[c].i - 1 ELSE Len(calls'[c].texts)

(* C25: during analyzeBatch blank entries produce no Result but are counted:
   after each non-blank text completes progress is (entries gone through so
   far / number of entries, blank ones included) x 100; progress stays within
   [0,100], never decreases during one batch, and is 100 when the batch
   succeeds, unless the list is empty, when it stays 0. *)
C25_Progress ==
    [][\A c \in NewBatchCalls :
          /\ calls'[c].results # <<>> =>
                [j \in 1..Len(calls'[c].results) |-> calls'[c].results[j].text]
                   = SubSeq(WithoutBlanks(calls'[c].texts), 1, Len(calls'[c].results))
          /\ Completes(c) =>
                state'.progress = FMul(F(Processed(c), Len(calls'[c].texts)), Hundred)
          /\ InRange(state'.progress)
          /\ WasRunning(c) => FLe(state.progress, state'.progress)
          /\ Succeeds(c) =>
                state'.progress = IF calls'[c].texts = <<>> THEN Zero ELSE Hundred]_vars

\* the first of two non-blank texts of a list with a blank entry has completed
C25_Witness ==
    \E c \in BatchCalls :
        /\ calls[c].status = "running"
        /\ Len(calls[c].texts) = MaxTexts + 1
        /\ Len(WithoutBlanks(calls[c].texts)) = MaxTexts
        /\ Len(calls[c].results) = 1
        /\ state.progress = FMul(F(1, MaxTexts + 1), Hundred)

-----------------------------------------------------------------------------
(* C26 as stated: the Demo Simulator counts hits against the word lists of the
   Keyword Extractor, so a simulated Result whose text has lexicon words of one
   polarity only has that verdict, with confidence
   min(0.65 + 0.08 x hits, 0.92). *)

DemoConfidence(hits) == FMin(FAdd(F(65, 100), FMul(F(hits, 1), F(8, 100))), F(92, 100))

C26_AsStated ==
    \A j \in 1..Len(state.results) :
        LET result == state.results[j]
            positiveHits == countIn(Words(result.text), positiveWords)
            negativeHits == countIn(Words(result.text), negativeWords)
        IN /\ (positiveHits > 0 /\ negativeHits = 0) =>
                 /\ result.sentiment = "positive"
                 /\ result.confidence = DemoConfidence(positiveHits)
           /\ (negativeHits > 0 /\ positiveHits = 0) =>
                 /\ result.sentiment = "negative"
                 /\ result.confidence = DemoConfidence(negativeHits)

-----------------------------------------------------------------------------
(* C27: label mapping sends each canonical label, in any letter case, to
   itself, sends every label matching no positive or negative rule to neutral,
   and gives the positive rules priority when a label matches both; the score
   of each label of a response is the score of the bucket it is sent to. *)

Canonical == {<<Sentiments[j]>> : j \in 1..Len(Sentiments)}

MatchesPositive(lower) ==
    \/ \E j \in 1..Len(lower) : lower[j] \in {"positive", "5 stars", "4 stars"}
    \/ lower \in {<<"label_2">>, <<"pos">>}

MatchesNegative(lower) ==
    \/ \E j \in 1..Len(lower) : lower[j] \in {"negative", "1 star", "2 stars"}
    \/ lower \in {<<"label_0">>, <<"neg">>}

\* the bucket the claim sends a lower-cased label to
BucketOf(lower) ==
    IF lower \in Canonical THEN lower[1]
    ELSE IF MatchesPositive(lower) THEN "positive"
    ELSE IF MatchesNegative(lower) THEN "negative"
    ELSE "neutral"

C27_LabelMapping ==
    \A i \in Analysed :
        \A j \in 1..Len(RawOf(i)) :
            LET lower == MapLower(RawOf(i)[j].label)
            IN /\ mapSentimentLabel(RawOf(i)[j].label) = BucketOf(lower)
               /\ reqs[i].out.value.scores[BucketOf(lower)] = RawOf(i)[j].score

\* a label matching both rules, and labels matching none, have been mapped
C27_Witness ==
    \E i \in Analysed :
        /\ \E j \in 1..Len(RawOf(i)) :
              /\ MatchesPositive(MapLower(RawOf(i)[j].label))
              /\ MatchesNegative(MapLower(RawOf(i)[j].label))
              /\ reqs[i].out.value.scores.positive = RawOf(i)[j].score
        /\ \E j \in 1..Len(RawOf(i)) :
              /\ ~MatchesPositive(MapLower(RawOf(i)[j].label))
              /\ ~MatchesNegative(MapLower(RawOf(i)[j].label))
              /\ reqs[i].out.value.scores.neutral = RawOf(i)[j].score

-----------------------------------------------------------------------------
(* C28 as stated: the confidence of every Result, of the live client or of the
   Demo Simulator, is the value of its scores at its verdict, and that value is
   the maximum of the three. *)

C28_AsStated ==
    \A j \in 1..Len(state.results) :
        LET result == state.results[j]
        IN /\ result.confidence = result.scores[result.sentiment]
           /\ IsMaximal(result.scores, result.sentiment)

-----------------------------------------------------------------------------
(* C29 as stated: every Batch analyzeBatch adds to the Batch collection has at
   least one member Result, so its mean confidence is a number in [0,1]; a list
   that is empty or has blank texts only never produces a Batch. *)

C29_AsStated ==
    /\ \A j \in 1..Len(state.batches) :
          LET batch == state.batches[j]
          IN /\ batch.results # <<>>
             /\ ~IsNaN(batch.summary.averageConfidence)
             /\ FLe(Zero, batch.summary.averageConfidence)
             /\ FLe(batch.summary.averageConfidence, One)
    /\ \A c \in BatchCalls :
          WithoutBlanks(calls[c].texts) = <<>> => calls[c].status # "returned"

-----------------------------------------------------------------------------
(* C30: no update is lost when analyses overlap each other or deletions: every
   step keeps in the Result collection, exactly once and also in persisted
   storage, every Result that was there or that a call completing in the step
   produced, except the Results the step deletes. *)

\* the ids of the Results the step deletes
DeletedNow ==
    {id \in Ids(state.results) :
        \/ DeleteResult(id)
        \/ \E j \in 1..Len(state.batches) :
              DeleteBatch(state.batches[j].id) /\ id \in Members(state.batches[j])}

\* the ids of the Results of the calls that complete in the step
ProducedNow ==
    UNION { IF calls'[c].kind = "batch" THEN Ids(calls'[c].ret.results)
            ELSE {calls'[c].ret.id} :
            c \in {d \in 1..Len(calls) :
                      calls[d].status = "running" /\ calls'[d].status = "returned"} }

StoredResultsNext ==
    IF storage'.sentimentResults = Absent THEN <<>> ELSE storage'.sentimentResults[1]

C30_NoLostUpdate ==
    [][/\ Ids(state'.results) = (Ids(state.results) \cup ProducedNow) \ DeletedNow
       /\ \A j, k \in 1..Len(state'.results) :
             state'.results[j].id = state'.results[k].id => j = k
       /\ [j \in 1..Len(StoredResultsNext) |-> StoredResultsNext[j].id]
             = [j \in 1..Len(state'.results) |-> state'.results[j].id]]_vars

\* all calls have finished; a single analysis completed between the two Results
\* of a batch, its Result was deleted, and the Results of the batch are stored
C30_Witness ==
    /\ \A c \in 1..Len(calls) : calls[c].status = "returned"
    /\ \E c, d \in Returned :
          /\ calls[c].kind = "batch" /\ calls[d].kind = "single"
          /\ Len(Produced(c)) = 2
          /\ Produced(c)[1].id[2] < CompletedAt(d)
          /\ CompletedAt(d) < Produced(c)[2].id[2]
          /\ Ids(state.results) = Ids(Produced(c))
          /\ Len(state.results) = 2
          /\ Ids(StoredResults) = Ids(Produced(c))

=============================================================================
